---- MODULE Spec2Model ----
(***************************************************************************)
(* Model of the grest Router (src/router.go): the registration calls that   *)
(* build the ordered layer stack of each Router, and the continuation       *)
(* driven dispatch walk of Router.route.                                    *)
(*                                                                          *)
(* Strings are sequences of one-character strings, so that                  *)
(* strings.TrimPrefix and the layer pattern match are computed character    *)
(* by character.  layer and Route live outside src/router.go; their         *)
(* behaviour (match, handlesMethod, optionsMethods, handleRequest) follows  *)
(* the written specification of the repository.                            *)
(***************************************************************************)
EXTENDS Integers, Sequences, FiniteSets, TLC

VARIABLES stack, routerPrefix, serving, reqs

vars == <<stack, routerPrefix, serving, reqs>>

----------------------------------------------------------------------------
(* Bounds of the model.                                                     *)

\* total number of layers registered over all Routers
MaxLayers == 3
\* total number of layers registered when two requests run concurrently
\* or handlers call their continuation more than once
MaxPairLayers == 2
\* continuation calls of one request after the first call of each handler
MaxRecalls == 1

\* the Router objects; a Router is only mounted under a Router that comes
\* earlier in RouterOrder (a cyclic mount recurses without end in route)
RouterOrder == <<"A", "B", "C">>
Routers == {RouterOrder[i] : i \in 1..Len(RouterOrder)}
\* the Routers of the registration calls when mounts are one level deep
TwoLevel == {RouterOrder[1], RouterOrder[2]}
Rank(r) == CHOOSE i \in 1..Len(RouterOrder) : RouterOrder[i] = r

\* the Router the requests enter through ServeHTTP
RootRouter == RouterOrder[1]

\* request slots (one root dispatch per request)
Requests == {"q1", "q2"}
\* the slot used when requests are served one at a time
SoloRequests == {"q1"}

Slash == "/"
Colon == ":"
EMPTY == << >>
ROOT  == <<"/">>
API   == <<"/", "a", "p", "i">>
USERS == <<"/", "u", "s", "e", "r", "s">>
API_USERS == API \o USERS
V1    == <<"/", "v", "1">>
V1_API_USERS == V1 \o API \o USERS
ID    == <<"/", ":", "i", "d">>

\* paths handed to the registration calls and request paths
UsePaths   == {EMPTY, API}
RoutePaths == {USERS}
ReqPaths   == {USERS, API_USERS, API}

NoErr == "nil"
\* "no call yet" in the records of what a handler or a walk passed on
NoCall == "none"
Errors == {"e1", "e2"}
ErrVals == {NoErr} \cup Errors

\* the methods addHandler switches on (src/router.go:99-111)
ShorthandMethods == {"GET", "POST", "PUT", "DELETE", "HEAD"}
\* order in which a Route lists its methods
MethodOrder == <<"GET", "POST", "PUT", "DELETE", "HEAD", "OPTIONS">>
\* methods of the registration calls and of the requests of the model
RegMethods == {"GET", "POST"}
ReqMethods == {"GET", "POST", "HEAD", "OPTIONS"}
\* requests and handler errors of two concurrent requests
PairMethods == {"GET", "OPTIONS"}
PairPaths   == {USERS, API_USERS}
PairErrs    == {NoErr, "e1"}
\* mount paths and request paths of mounts two levels deep
NestPaths    == {V1, API}
NestReqPaths == {V1_API_USERS, API_USERS, V1 \o USERS}
\* Route patterns and request paths of Routes with a named parameter
ParamPaths    == {USERS, ID}
ParamReqPaths == {USERS, API_USERS}

----------------------------------------------------------------------------
(* Strings.                                                                 *)

HasPrefix(s, p) == Len(p) <= Len(s) /\ SubSeq(s, 1, Len(p)) = p

\* variant: the prefix is never trimmed
TrimPrefixKeeps(s, p) == s

\* strings.TrimPrefix: s without the leading p, or s unchanged
TrimPrefix(s, p) == IF HasPrefix(s, p) THEN SubSeq(s, Len(p) + 1, Len(s)) ELSE s

\* index of the first "/" of s at or after position i, Len(s)+1 when none
RECURSIVE SegEnd(_, _)
SegEnd(s, i) ==
    IF i > Len(s) \/ s[i] = Slash THEN i ELSE SegEnd(s, i + 1)

\* exact match of a route pattern; a segment ":name" takes one whole
\* non-empty path segment.  The result is <<matched, captured pairs>>.
RECURSIVE MatchExact(_, _, _, _, _)
MatchExact(pat, i, path, j, caps) ==
    IF i > Len(pat) THEN <<j > Len(path), caps>>
    ELSE IF pat[i] = Colon
    THEN LET pe  == SegEnd(pat, i)
             se  == SegEnd(path, j)
         IN  IF se = j THEN <<FALSE, caps>>
             ELSE MatchExact(pat, pe, path, se,
                    Append(caps, <<SubSeq(pat, i + 1, pe - 1), SubSeq(path, j, se - 1)>>))
    ELSE IF j <= Len(path) /\ path[j] = pat[i]
    THEN MatchExact(pat, i + 1, path, j + 1, caps)
    ELSE <<FALSE, caps>>

\* segment aligned prefix match of a Use pattern
StripSlash(p) == IF Len(p) > 0 /\ p[Len(p)] = Slash THEN SubSeq(p, 1, Len(p) - 1) ELSE p
MatchPrefix(pat, path) ==
    LET p == StripSlash(pat)
    IN  /\ HasPrefix(path, p)
        /\ (Len(path) = Len(p) \/ path[Len(p) + 1] = Slash)

\* layer.match(path): <<matched, captured parameters>>; the captures of an
\* unmatched pattern are empty
LayerMatch(l, path) ==
    IF l.isRoute
    THEN LET m == MatchExact(l.path, 1, path, 1, << >>)
         IN  IF m[1] THEN m ELSE <<FALSE, << >> >>
    ELSE <<MatchPrefix(l.path, path), << >> >>

\* Router.matchLayer
matchLayer(l, path) == LayerMatch(l, path)

\* Route.handlesMethod
handlesMethod(l, method) ==
    \/ method \in l.methods
    \/ (method = "HEAD" /\ "GET" \in l.methods)

\* Route.optionsMethods
RECURSIVE MethodsFrom(_, _)
MethodsFrom(ms, i) ==
    IF i > Len(MethodOrder) THEN << >>
    ELSE (IF MethodOrder[i] \in ms THEN <<MethodOrder[i]>> ELSE << >>)
         \o MethodsFrom(ms, i + 1)
optionsMethods(l) == MethodsFrom(l.methods, 1)

----------------------------------------------------------------------------
(* Registration.                                                            *)

\* newLayer(path, handler, isRoute); handler is "fn" for a plain handler,
\* the name of a Router, or "route" for the layer's own Route
newLayer(path, handler, isRoute) ==
    [path |-> path, handler |-> handler, isRoute |-> isRoute,
     hasRoute |-> FALSE, methods |-> {}]

TotalLayers == LET RECURSIVE Sum(_)
                   Sum(S) == IF S = {} THEN 0
                             ELSE LET r == CHOOSE x \in S : TRUE
                                  IN  Len(stack[r]) + Sum(S \ {r})
               IN  Sum(Routers)

TotalLayersNext == TotalLayers'

\* NewRouter (src/router.go:32-38)
NewRouter == [stack |-> << >>, routerPrefix |-> EMPTY]

IdleReq ==
    [active |-> FALSE, root |-> "", method |-> "", path |-> EMPTY,
     walks |-> << >>, invoked |-> << >>, log |-> << >>, done |-> << >>,
     resp |-> << >>, params |-> << >>, status |-> << >>]

Init ==
    /\ stack = [r \in Routers |-> NewRouter.stack]
    /\ routerPrefix = [r \in Routers |-> NewRouter.routerPrefix]
    /\ serving = FALSE
    /\ reqs = [q \in Requests |-> IdleReq]

\* what a Router may be handed as a handler: a plain handler or a Router
\* later in RouterOrder
HandlerChoices(r) == {"fn"} \cup {c \in Routers : Rank(c) > Rank(r)}

\* variant: the new layer is put in front of the stack
UseOnePrepends(st, r, path, handler) ==
    LET l == [newLayer(path, handler, FALSE) EXCEPT !.hasRoute = FALSE]
    IN  [stack |-> [st.stack EXCEPT ![r] = <<l>> \o @],
         routerPrefix |->
            IF handler \in Routers
            THEN [st.routerPrefix EXCEPT ![handler] = st.routerPrefix[r] \o path]
            ELSE st.routerPrefix]

\* the body of the loop of Use, for one handler; st = [stack, routerPrefix]
UseOne(st, r, path, handler) ==
    LET l == [newLayer(path, handler, FALSE) EXCEPT !.hasRoute = FALSE]
    IN  [stack |-> [st.stack EXCEPT ![r] = Append(@, l)],
         routerPrefix |->
            IF handler \in Routers
            THEN [st.routerPrefix EXCEPT ![handler] = st.routerPrefix[r] \o path]
            ELSE st.routerPrefix]

RECURSIVE UseLoop(_, _, _, _)
UseLoop(st, r, path, handlers) ==
    IF handlers = << >> THEN st
    ELSE UseLoop(UseOne(st, r, path, Head(handlers)), r, path, Tail(handlers))

\* the default path of Use
UsePath(path) == IF path = EMPTY THEN ROOT ELSE path

\* Router.Use(path, handlers...)
Use(r, path, handlers) ==
    /\ ~serving
    /\ TotalLayers + Len(handlers) <= MaxLayers
    /\ LET st == UseLoop([stack |-> stack, routerPrefix |-> routerPrefix],
                         r, UsePath(path), handlers)
       IN  /\ stack' = st.stack
           /\ routerPrefix' = st.routerPrefix
    /\ UNCHANGED <<serving, reqs>>

\* the layer Router.Route appends: it carries a fresh Route
RouteLayer(path) == [newLayer(path, "route", TRUE) EXCEPT !.hasRoute = TRUE]

\* Router.Route(path)
Route(r, path) ==
    /\ ~serving
    /\ TotalLayers < MaxLayers
    /\ stack' = [stack EXCEPT ![r] = Append(@, RouteLayer(path))]
    /\ UNCHANGED <<routerPrefix, serving, reqs>>

\* Route.GET, Route.POST, ... on the Route of a layer
registerMethod(l, method) == [l EXCEPT !.methods = @ \cup {method}]

\* Route.All
registerAll(l) == [l EXCEPT !.methods = {MethodOrder[i] : i \in 1..Len(MethodOrder)}]

\* Router.addHandler(method, path, handlers...), reached from GET, POST, ...
addHandler(r, method, path) ==
    /\ ~serving
    /\ TotalLayers < MaxLayers
    /\ LET l == RouteLayer(path)
       IN  stack' = [stack EXCEPT ![r] =
                        Append(@, IF method \in ShorthandMethods
                                  THEN registerMethod(l, method) ELSE l)]
    /\ UNCHANGED <<routerPrefix, serving, reqs>>

\* Router.All(path, handlers...)
All(r, path) ==
    /\ ~serving
    /\ TotalLayers < MaxLayers
    /\ stack' = [stack EXCEPT ![r] = Append(@, registerAll(RouteLayer(path)))]
    /\ UNCHANGED <<routerPrefix, serving, reqs>>

----------------------------------------------------------------------------
(* Dispatch: Router.route.                                                  *)

\* variant: the wrapper replies whenever methods were accumulated
DelegatesToOldIgnoresErr(err, allow) == Len(allow) = 0

\* line 195: the OPTIONS wrapper hands the call on to the callback it wraps
DelegatesToOld(err, allow) == err # NoErr \/ Len(allow) = 0

\* line 234: the layer is passed over or taken without looking at the method
SkipsMethodCheck(match, l) == ~match \/ ~l.hasRoute

\* variant: the methods are added for the Routes that do handle OPTIONS
AccumulatesHandled(hasMethod, method) == hasMethod /\ method = "OPTIONS"

\* line 240: the Route's methods are added to the allowed methods
Accumulates(hasMethod, method) == ~hasMethod /\ method = "OPTIONS"

\* variant: a path match is enough, the method is not looked at
MethodMismatchNever(hasMethod, method) == FALSE

\* variant: the test of the method is inverted
MethodMismatchInverted(hasMethod, method) == hasMethod /\ method # "HEAD"

\* variant: HEAD is treated like every other method
MethodMismatchNoHead(hasMethod, method) == ~hasMethod

\* line 246: a path match is turned into no match
MethodMismatch(hasMethod, method) == ~hasMethod /\ method # "HEAD"

\* variant: the error passed to next is not looked at
EndsWalkIgnoresErr(match, err) == ~match

\* line 251: the walk ends instead of handing the request to the layer
EndsWalk(match, err) == ~match \/ err # NoErr

\* lines 228-249: the scan loop from cursor idx; l is the index (from 1) of
\* the last layer inspected, params the urlParams of its match, seen the
\* indices of the layers inspected
RECURSIVE Scan(_, _, _, _, _)
Scan(S, path, method, idx, allow) ==
    LET l    == S[idx + 1]
        m    == matchLayer(l, path)
        idx1 == idx + 1
        has  == handlesMethod(l, method)
        allow1 == IF ~SkipsMethodCheck(m[1], l) /\ Accumulates(has, method)
                  THEN allow \o optionsMethods(l) ELSE allow
        match == IF SkipsMethodCheck(m[1], l) THEN m[1]
                 ELSE ~MethodMismatch(has, method)
    IN  IF match \/ idx1 >= Len(S)
        THEN [idx |-> idx1, allow |-> allow1, match |-> match, l |-> idx1,
              params |-> m[2], seen |-> <<idx1>>]
        ELSE LET sc == Scan(S, path, method, idx1, allow1)
             IN  [sc EXCEPT !.seen = <<idx1>> \o @]

\* layer.registerParamsAsQuery: the captures are added to the request
registerParamsAsQuery(rs, params) == [rs EXCEPT !.params = @ \o params]

\* a new dispatch walk of Router r (the locals idx and allowOptionsMethods
\* of route), called back into walk parent (0: the terminal callback);
\* seen and picked record the layers the walk has inspected and the layers
\* it has handed the request to
NewWalk(r, parent) ==
    [router |-> r, idx |-> 0, allow |-> << >>, parent |-> parent,
     ended |-> FALSE, returned |-> NoCall, seen |-> << >>, picked |-> << >>]

\* the layer at index l of walk w is handed the request
pick(rs, w, l) == [rs EXCEPT !.walks[w].picked = Append(@, l)]

RECURSIVE next(_, _, _), done(_, _, _), HTTPHandle(_, _, _)

\* the status codes of http.Error (line 272) and http.NotFound (line 275)
StatusInternalServerError == 500
StatusNotFound == 404

\* variant: the callback of ServeHTTP does not look at the error
TerminalStatusNotFound(err) == StatusNotFound

\* lines 271-275: the reply of the callback ServeHTTP gives to route
TerminalStatus(err) ==
    IF err # NoErr THEN StatusInternalServerError ELSE StatusNotFound

\* the terminal callback given to the root dispatch (lines 270-276); done
\* records the calls and status the replies written
Terminal(rs, err) ==
    [rs EXCEPT !.done = Append(@, err),
               !.status = Append(@, TerminalStatus(err))]

\* the automatic OPTIONS reply of lines 198-204 (json.Marshal of a
\* []string does not fail, so the branch of line 200 is never taken)
WriteAllow(rs, w) ==
    [rs EXCEPT !.resp = Append(@, [walk |-> w, router |-> rs.walks[w].router,
                                   allow |-> rs.walks[w].allow]),
               !.walks[w].ended = TRUE]

\* old(err): the callback route was given; ended and returned record that
\* walk w is over and what it passed to that callback
old(rs, w, err) ==
    LET rs1 == [rs EXCEPT !.walks[w].ended = TRUE, !.walks[w].returned = err]
    IN  IF rs.walks[w].parent = 0 THEN Terminal(rs1, err)
        ELSE next(rs1, rs.walks[w].parent, err)

\* done(err) of walk w: wrapped when the request method is OPTIONS
done(rs, w, err) ==
    IF rs.method = "OPTIONS" /\ ~DelegatesToOld(err, rs.walks[w].allow)
    THEN WriteAllow(rs, w)
    ELSE old(rs, w, err)

\* layer.handleRequest(res, req, next) for layer li of walk w: a Router runs
\* its own walk, any other handler (a plain handler, a Route's chain) is
\* invoked and holds the continuation of walk w
handleRequest(rs, w, li) ==
    LET r == rs.walks[w].router
        l == stack[r][li]
    IN  IF l.handler \in Routers
        THEN HTTPHandle(rs, l.handler, w)
        ELSE [rs EXCEPT !.invoked =
                 Append(@, [walk |-> w, router |-> r, layer |-> li,
                            calls |-> 0, passed |-> NoCall])]

\* variant: the return after done(err) of line 212 is missing
nextFallsThrough(rs, w, err) ==
    LET W == rs.walks[w]
        S == stack[W.router]
        path == TrimPrefix(rs.path, routerPrefix[W.router])
        rs0 == IF W.idx >= Len(S) THEN done(rs, w, err) ELSE rs
    IN  IF path = EMPTY \/ W.idx >= Len(S) THEN done(rs0, w, err)
        ELSE LET sc  == Scan(S, path, rs.method, W.idx, W.allow)
                 rs1 == [rs EXCEPT !.walks[w].idx = sc.idx,
                                   !.walks[w].allow = sc.allow,
                                   !.walks[w].seen = @ \o sc.seen]
             IN  IF EndsWalk(sc.match, err) THEN done(rs1, w, err)
                 ELSE handleRequest(
                        registerParamsAsQuery(pick(rs1, w, sc.l), sc.params),
                        w, sc.l)

\* variant: the cursor the scan has reached is kept only when a layer is
\* handed the request
nextKeepsCursorOnPick(rs, w, err) ==
    LET W == rs.walks[w]
        S == stack[W.router]
        path == TrimPrefix(rs.path, routerPrefix[W.router])
    IN  IF W.idx >= Len(S) THEN done(rs, w, err)
        ELSE IF path = EMPTY THEN done(rs, w, err)
        ELSE LET sc  == Scan(S, path, rs.method, W.idx, W.allow)
                 rs0 == [rs EXCEPT !.walks[w].allow = sc.allow,
                                   !.walks[w].seen = @ \o sc.seen]
                 rs1 == [rs0 EXCEPT !.walks[w].idx = sc.idx]
             IN  IF EndsWalk(sc.match, err) THEN done(rs0, w, err)
                 ELSE handleRequest(
                        registerParamsAsQuery(pick(rs1, w, sc.l), sc.params),
                        w, sc.l)

\* variant: the walk goes on by itself after the layer's handler returns
nextGoesOn(rs, w, err) ==
    LET W == rs.walks[w]
        S == stack[W.router]
        path == TrimPrefix(rs.path, routerPrefix[W.router])
    IN  IF W.idx >= Len(S) THEN done(rs, w, err)
        ELSE IF path = EMPTY THEN done(rs, w, err)
        ELSE LET sc  == Scan(S, path, rs.method, W.idx, W.allow)
                 rs1 == [rs EXCEPT !.walks[w].idx = sc.idx,
                                   !.walks[w].allow = sc.allow,
                                   !.walks[w].seen = @ \o sc.seen]
             IN  IF EndsWalk(sc.match, err) THEN done(rs1, w, err)
                 ELSE next(handleRequest(
                             registerParamsAsQuery(pick(rs1, w, sc.l), sc.params),
                             w, sc.l),
                           w, NoErr)

\* variant: the test of the empty path of line 217 is missing
nextScansEmptyPath(rs, w, err) ==
    LET W == rs.walks[w]
        S == stack[W.router]
        path == TrimPrefix(rs.path, routerPrefix[W.router])
    IN  IF W.idx >= Len(S) THEN done(rs, w, err)
        ELSE LET sc  == Scan(S, path, rs.method, W.idx, W.allow)
                 rs1 == [rs EXCEPT !.walks[w].idx = sc.idx,
                                   !.walks[w].allow = sc.allow,
                                   !.walks[w].seen = @ \o sc.seen]
             IN  IF EndsWalk(sc.match, err) THEN done(rs1, w, err)
                 ELSE handleRequest(
                        registerParamsAsQuery(pick(rs1, w, sc.l), sc.params),
                        w, sc.l)

\* variant: the parameters are registered before the test of line 251
nextRegistersFirst(rs, w, err) ==
    LET W == rs.walks[w]
        S == stack[W.router]
        path == TrimPrefix(rs.path, routerPrefix[W.router])
    IN  IF W.idx >= Len(S) THEN done(rs, w, err)
        ELSE IF path = EMPTY THEN done(rs, w, err)
        ELSE LET sc  == Scan(S, path, rs.method, W.idx, W.allow)
                 rs1 == registerParamsAsQuery(
                          [rs EXCEPT !.walks[w].idx = sc.idx,
                                     !.walks[w].allow = sc.allow,
                                     !.walks[w].seen = @ \o sc.seen],
                          sc.params)
             IN  IF EndsWalk(sc.match, err) THEN done(rs1, w, err)
                 ELSE handleRequest(pick(rs1, w, sc.l), w, sc.l)

\* next(err) of walk w (lines 210-258)
next(rs, w, err) ==
    LET W == rs.walks[w]
        S == stack[W.router]
        path == TrimPrefix(rs.path, routerPrefix[W.router])
    IN  IF W.idx >= Len(S) THEN done(rs, w, err)
        ELSE IF path = EMPTY THEN done(rs, w, err)
        ELSE LET sc  == Scan(S, path, rs.method, W.idx, W.allow)
                 rs1 == [rs EXCEPT !.walks[w].idx = sc.idx,
                                   !.walks[w].allow = sc.allow,
                                   !.walks[w].seen = @ \o sc.seen]
             IN  IF EndsWalk(sc.match, err) THEN done(rs1, w, err)
                 ELSE handleRequest(
                        registerParamsAsQuery(pick(rs1, w, sc.l), sc.params),
                        w, sc.l)

\* Router.route(req, res, done): a new walk, started by next(nil)
route(rs, r, parent) ==
    LET rs1 == [rs EXCEPT !.walks = Append(@, NewWalk(r, parent))]
    IN  next(rs1, Len(rs1.walks), NoErr)

\* Router.HTTPHandle(res, req, next): the Router as a handler of walk w
HTTPHandle(rs, r, w) == route(rs, r, w)

\* the root dispatch of a request (method, path) entering Router r
Enter(r, method, path) ==
    route([IdleReq EXCEPT !.active = TRUE, !.root = r,
                          !.method = method, !.path = path], r, 0)

\* variant: the cursor belongs to the Router instead of the call of route,
\* so a request starts where the walks of the other requests have left it
SharedCursor(q, r) ==
    LET used == UNION {{reqs[o].walks[w].idx :
                           w \in {v \in 1..Len(reqs[o].walks) :
                                     reqs[o].walks[v].router = r}} :
                       o \in Requests \ {q}}
    IN  IF used = {} THEN 0 ELSE CHOOSE m \in used : \A n \in used : n <= m
ServeHTTPSharedCursor(q, r, method, path) ==
    /\ ~reqs[q].active
    /\ serving' = TRUE
    /\ reqs' = [reqs EXCEPT ![q] =
          LET rs == [IdleReq EXCEPT !.active = TRUE, !.root = r,
                                    !.method = method, !.path = path,
                                    !.walks = <<[NewWalk(r, 0) EXCEPT
                                                   !.idx = SharedCursor(q, r)]>>]
          IN  next(rs, 1, NoErr)]
    /\ UNCHANGED <<stack, routerPrefix>>

\* variant: the walk takes the layers it has been through off the stack of
\* the Router
ServeHTTPDrainsStack(q, r, method, path) ==
    /\ ~reqs[q].active
    /\ serving' = TRUE
    /\ reqs' = [reqs EXCEPT ![q] = Enter(r, method, path)]
    /\ stack' = [stack EXCEPT ![r] =
                    SubSeq(@, reqs'[q].walks[1].idx + 1, Len(@))]
    /\ UNCHANGED routerPrefix

\* Router.ServeHTTP: request q enters Router r
ServeHTTP(q, r, method, path) ==
    /\ ~reqs[q].active
    /\ serving' = TRUE
    /\ reqs' = [reqs EXCEPT ![q] = Enter(r, method, path)]
    /\ UNCHANGED <<stack, routerPrefix>>

\* the effect on a request of handler invocation h calling next(err)
ApplyCall(rs, h, err) ==
    next([rs EXCEPT !.invoked[h].calls = @ + 1,
                    !.invoked[h].passed = err,
                    !.log = Append(@, <<h, err>>)],
         rs.invoked[h].walk, err)

\* handler invocation h of request q calls the continuation it was given
\* (a one-shot callback), passing err
CallNext(q, h, err) ==
    /\ reqs[q].active
    /\ h \in 1..Len(reqs[q].invoked)
    /\ reqs[q].invoked[h].calls = 0
    /\ reqs' = [reqs EXCEPT ![q] = ApplyCall(reqs[q], h, err)]
    /\ UNCHANGED <<stack, routerPrefix, serving>>

\* the continuation calls of request rs after the first of each handler
Recalls(rs) ==
    Len(rs.log) - Cardinality({h \in 1..Len(rs.invoked) : rs.invoked[h].calls > 0})

\* handler invocation h of request q calls its continuation once more
Recall(q, h, err) ==
    /\ reqs[q].active
    /\ h \in 1..Len(reqs[q].invoked)
    /\ reqs[q].invoked[h].calls > 0
    /\ Recalls(reqs[q]) < MaxRecalls
    /\ reqs' = [reqs EXCEPT ![q] = ApplyCall(reqs[q], h, err)]
    /\ UNCHANGED <<stack, routerPrefix, serving>>

\* handler lists of the Use calls of the model, over the Routers of RS
HandlerLists(r, RS) ==
    LET H == HandlerChoices(r) \cap ({"fn"} \cup RS)
    IN  {<<h>> : h \in H} \cup {<<h1, h2>> : h1 \in H, h2 \in H}

Register ==
    \/ \E r \in TwoLevel, p \in UsePaths :
          \E hs \in HandlerLists(r, TwoLevel) : Use(r, p, hs)
    \/ \E r \in TwoLevel, p \in RoutePaths : Route(r, p)
    \/ \E r \in TwoLevel, m \in RegMethods, p \in RoutePaths : addHandler(r, m, p)
    \/ \E r \in TwoLevel, p \in RoutePaths : All(r, p)

Serve(Q, methods, paths, errs) ==
    \/ \E q \in Q, m \in methods, p \in paths : ServeHTTP(q, RootRouter, m, p)
    \/ \E q \in Q, e \in errs : \E h \in 1..Len(reqs[q].invoked) : CallNext(q, h, e)

\* registration, then one request
Next == Register \/ Serve(SoloRequests, ReqMethods, ReqPaths, ErrVals)

Spec == Init /\ [][Next]_vars

\* registration of a small stack, then two requests served concurrently
NextPair ==
    \/ Register /\ TotalLayersNext <= MaxPairLayers
    \/ Serve(Requests, PairMethods, PairPaths, PairErrs)

SpecPair == Init /\ [][NextPair]_vars

\* Routers mounted under Routers in any order of the Use calls, a GET
\* Route at /users on any of them, then one GET request
NextNest ==
    \/ \E r \in Routers, p \in NestPaths :
          \E c \in HandlerChoices(r) \cap Routers : Use(r, p, <<c>>)
    \/ \E r \in Routers : addHandler(r, "GET", USERS)
    \/ Serve(SoloRequests, {"GET"}, NestReqPaths, {NoErr})

SpecNest == Init /\ [][NextNest]_vars

\* registration of a small stack, then one request whose handlers call
\* their continuation any number of times
NextRecall ==
    \/ Register /\ TotalLayersNext <= MaxPairLayers
    \/ Serve(SoloRequests, PairMethods, PairPaths, PairErrs)
    \/ \E q \in SoloRequests, e \in PairErrs :
          \E h \in 1..Len(reqs[q].invoked) : Recall(q, h, e)

SpecRecall == Init /\ [][NextRecall]_vars

\* Routes with and without a named parameter and plain handlers on the
\* root Router, then one request
NextParams ==
    \/ \E m \in RegMethods, p \in ParamPaths : addHandler(RootRouter, m, p)
    \/ Use(RootRouter, EMPTY, <<"fn">>)
    \/ Serve(SoloRequests, ReqMethods, ParamReqPaths, PairErrs)

SpecParams == Init /\ [][NextParams]_vars

----------------------------------------------------------------------------
(* Properties.                                                              *)

SubRouter == RouterOrder[2]

\* layer l is usable for (method, path): what the scan of route selects
Usable(l, method, path) ==
    /\ LayerMatch(l, path)[1]
    /\ (~l.hasRoute \/ handlesMethod(l, method) \/ method = "HEAD")

IsRouteAt(l, path) == l.hasRoute /\ l.isRoute /\ l.path = path

\* some handler still holds a continuation it has not called
Pending(rs) == \E h \in 1..Len(rs.invoked) : rs.invoked[h].calls = 0
Finished(rs) == rs.active /\ ~Pending(rs)

\* C1: when a handler passes a non-nil error e to its continuation, the
\* terminal callback receives exactly e, no automatic reply is written and
\* no handler is invoked after it, whatever the later layers match.
ErrorShortCircuit ==
    \A q \in Requests : \A h \in 1..Len(reqs[q].invoked) :
        reqs[q].invoked[h].passed \in Errors =>
            /\ reqs[q].done = <<reqs[q].invoked[h].passed>>
            /\ h = Len(reqs[q].invoked)
            /\ reqs[q].resp = << >>

\* a handler passed an error although a later layer of its Router is usable
\* for the request
ErrorShortCircuitWitness ==
    \E q \in Requests : \E h \in 1..Len(reqs[q].invoked) :
        LET iv == reqs[q].invoked[h]
            S  == stack[iv.router]
        IN  /\ iv.passed = "e2"
            /\ \E j \in (iv.layer + 1)..Len(S) :
                  Usable(S[j], reqs[q].method,
                         TrimPrefix(reqs[q].path, routerPrefix[iv.router]))
            /\ reqs[q].done = <<"e2">>

\* the stack of the root Router starts with three Routes at the request
\* path: L1 does not handle the request method, L2 and L3 do
OrderScenario(rs) ==
    LET S == stack[RootRouter]
    IN  /\ rs.active
        /\ rs.method # "HEAD"
        /\ Len(S) >= 3
        /\ \A i \in 1..3 : IsRouteAt(S[i], rs.path)
        /\ rs.method \notin S[1].methods
        /\ rs.method \in S[2].methods
        /\ rs.method \in S[3].methods

\* C2: with L1 (path match, wrong method), L2, L3 (path match, right
\* method) registered in that order, the first handler invoked is L2's,
\* L1's handler is never invoked and the cursor never returns to L1.
RegistrationOrder ==
    \A q \in Requests :
        OrderScenario(reqs[q]) =>
            /\ reqs[q].invoked # << >>
            /\ reqs[q].invoked[1].router = RootRouter
            /\ reqs[q].invoked[1].layer = 2
            /\ \A h \in 1..Len(reqs[q].invoked) : reqs[q].invoked[h].layer # 1
            /\ reqs[q].walks[1].idx >= 2

RegistrationOrderWitness ==
    \E q \in Requests :
        /\ OrderScenario(reqs[q])
        /\ Len(reqs[q].invoked) = 2
        /\ reqs[q].invoked[2].layer = 3

\* the methods an OPTIONS walk over stack S must have accumulated once it
\* has inspected every layer
RECURSIVE ExpectedAllow(_, _, _)
ExpectedAllow(S, path, i) ==
    IF i > Len(S) THEN << >>
    ELSE (IF S[i].hasRoute /\ LayerMatch(S[i], path)[1] /\ "OPTIONS" \notin S[i].methods
          THEN optionsMethods(S[i]) ELSE << >>)
         \o ExpectedAllow(S, path, i + 1)

GetPostScenario(rs) ==
    /\ rs.active
    /\ rs.method = "OPTIONS"
    /\ Len(stack[RootRouter]) = 2
    /\ IsRouteAt(stack[RootRouter][1], rs.path)
    /\ IsRouteAt(stack[RootRouter][2], rs.path)
    /\ stack[RootRouter][1].methods = {"GET"}
    /\ stack[RootRouter][2].methods = {"POST"}

\* C3: when the root walk of an OPTIONS request ends with no error, the
\* Allow reply lists, in stack order and with repetitions, the methods of
\* every path-matching Route that does not handle OPTIONS, and the terminal
\* callback is not invoked; it is invoked only when there is no such method.
\* A GET Route and a POST Route at the request path give Allow = GET,POST.
OptionsAggregation ==
    \A q \in Requests :
        LET rs  == reqs[q]
            exp == ExpectedAllow(stack[RootRouter],
                                 TrimPrefix(rs.path, routerPrefix[RootRouter]), 1)
        IN  /\ (rs.active /\ rs.method = "OPTIONS" /\ rs.walks[1].ended) =>
                 /\ rs.walks[1].returned = NoCall =>
                       /\ exp # << >>
                       /\ rs.resp = <<[walk |-> 1, router |-> RootRouter, allow |-> exp]>>
                       /\ rs.done = << >>
                 /\ rs.walks[1].returned = NoErr => exp = << >>
            /\ GetPostScenario(rs) =>
                 /\ rs.resp = <<[walk |-> 1, router |-> RootRouter,
                                 allow |-> <<"GET", "POST">>]>>
                 /\ rs.done = << >>

OptionsAggregationWitness ==
    \E q \in Requests :
        /\ GetPostScenario(reqs[q])
        /\ reqs[q].resp # << >>
        /\ reqs[q].resp[1].allow = <<"GET", "POST">>

\* Router c is mounted under Router r, and only at path
MountedOnlyAt(r, c, path) ==
    /\ \E i \in 1..Len(stack[r]) : stack[r][i].handler = c
    /\ \A i \in 1..Len(stack[r]) : stack[r][i].handler = c => stack[r][i].path = path

\* C4: with B mounted under the root A at /api and a Route of B at /users,
\* a request for /api/users entering A invokes the handler of that Route,
\* and a request for /users entering A never enters B, invokes no handler
\* of B and, A holding nothing but the mount, ends in the terminal callback
\* with no error.
PrefixComposition ==
    \A q \in Requests :
        LET rs == reqs[q]
            A  == stack[RootRouter]
            B  == stack[SubRouter]
        IN  (/\ rs.active
             /\ MountedOnlyAt(RootRouter, SubRouter, API)
             /\ \E j \in 1..Len(B) : IsRouteAt(B[j], USERS)) =>
                /\ routerPrefix[SubRouter] = API
                /\ (/\ rs.path = API_USERS
                    /\ A[1].handler = SubRouter
                    /\ IsRouteAt(B[1], USERS)
                    /\ (rs.method \in B[1].methods \/ rs.method = "HEAD")) =>
                       /\ rs.invoked # << >>
                       /\ rs.invoked[1].router = SubRouter
                       /\ rs.invoked[1].layer = 1
                /\ rs.path = USERS =>
                       /\ \A h \in 1..Len(rs.invoked) : rs.invoked[h].router # SubRouter
                       /\ \A w \in 1..Len(rs.walks) : rs.walks[w].router # SubRouter
                       /\ (\A i \in 1..Len(A) : A[i].handler = SubRouter) =>
                              /\ rs.done = <<NoErr>>
                              /\ rs.resp = << >>
                              /\ rs.invoked = << >>

PrefixCompositionWitness ==
    \E q \in Requests :
        /\ reqs[q].active
        /\ reqs[q].path = API_USERS
        /\ reqs[q].method = "GET"
        /\ MountedOnlyAt(RootRouter, SubRouter, API)
        /\ Len(stack[SubRouter]) > 0
        /\ IsRouteAt(stack[SubRouter][1], USERS)
        /\ reqs[q].invoked # << >>
        /\ reqs[q].invoked[1].router = SubRouter

\* Route(path) was called twice and GET registered on each: the stack of
\* the root Router starts with two Routes at the path of a GET request
TwoRoutesScenario(rs) ==
    LET S == stack[RootRouter]
    IN  /\ rs.active
        /\ rs.method = "GET"
        /\ Len(S) >= 2
        /\ IsRouteAt(S[1], rs.path) /\ "GET" \in S[1].methods
        /\ IsRouteAt(S[2], rs.path) /\ "GET" \in S[2].methods

\* C5 as stated: of two GET Routes registered at the same path, a GET
\* request executes the chain of the first one only; the chain of the
\* second one is not executed in that request.
OnlyFirstRoute ==
    \A q \in Requests :
        TwoRoutesScenario(reqs[q]) =>
            /\ reqs[q].invoked # << >>
            /\ reqs[q].invoked[1].layer = 1
            /\ \A h \in 1..Len(reqs[q].invoked) : reqs[q].invoked[h].layer # 2

\* C5 amended: the two Routes are two layers tried in order; the chain of
\* the first one is executed first, and the chain of the second one is
\* executed exactly when the first chain has called its continuation with
\* no error.
FirstRouteThenSecond ==
    \A q \in Requests :
        TwoRoutesScenario(reqs[q]) =>
            LET iv == reqs[q].invoked
            IN  /\ iv # << >>
                /\ iv[1].router = RootRouter /\ iv[1].layer = 1
                /\ (\E h \in 1..Len(iv) : iv[h].layer = 2) <=> iv[1].passed = NoErr
                /\ iv[1].passed = NoErr => (iv[2].router = RootRouter /\ iv[2].layer = 2)

FirstRouteThenSecondWitness ==
    \E q \in Requests :
        /\ TwoRoutesScenario(reqs[q])
        /\ Len(reqs[q].invoked) >= 2
        /\ reqs[q].invoked[2].layer = 2

\* C6 as stated: with one-shot continuations, the terminal callback is
\* invoked exactly once when no layer is left to try or a handler passed an
\* error, and never more than once.
TerminalExactlyOnce ==
    \A q \in Requests :
        /\ Len(reqs[q].done) <= 1
        /\ Finished(reqs[q]) => Len(reqs[q].done) = 1

\* C6 amended: the terminal callback is invoked at most once and not while
\* a handler holds the continuation; when no layer is left to try or a
\* handler passed an error, either the terminal callback is invoked, once,
\* or (OPTIONS request, no error, methods accumulated by the Router whose
\* walk ended) the automatic Allow reply is written, once, instead of it.
TerminalOrAllowOnce ==
    \A q \in Requests :
        LET rs == reqs[q]
        IN  /\ Len(rs.done) <= 1
            /\ Len(rs.resp) <= 1
            /\ Pending(rs) => (rs.done = << >> /\ rs.resp = << >>)
            /\ Finished(rs) => Len(rs.done) + Len(rs.resp) = 1
            /\ rs.resp # << >> =>
                  /\ rs.method = "OPTIONS"
                  /\ rs.resp[1].allow # << >>
                  /\ \A h \in 1..Len(rs.invoked) : rs.invoked[h].passed \notin Errors

\* a request whose handlers have all called their continuation and whose
\* walk ended in the terminal callback, and one that ended in the reply
TerminalOrAllowOnceWitness ==
    \E q \in Requests :
        /\ Finished(reqs[q])
        /\ Len(reqs[q].invoked) >= 2
        /\ reqs[q].done = <<NoErr>>

\* C7: a Router run as a handler hands back: once the walk of a nested
\* Router is over, for any request method, it has called the continuation
\* its parent gave it; and its cursor is its own.
NestedHandBack ==
    \A q \in Requests : \A w \in 1..Len(reqs[q].walks) :
        LET W == reqs[q].walks[w]
        IN  (W.parent # 0 /\ W.ended) =>
               /\ W.returned # NoCall
               /\ reqs[q].walks[W.parent].idx > 0

\* C8: the automatic Allow reply is written by the root dispatch only, and
\* at most once per request.
AllowReplyAtRootOnly ==
    \A q \in Requests :
        /\ Len(reqs[q].resp) <= 1
        /\ \A k \in 1..Len(reqs[q].resp) :
              reqs[q].walks[reqs[q].resp[k].walk].parent = 0

\* C9: a walk of a Router entered for a request path that does not begin
\* with its routerPrefix invokes no handler of the Router and calls the
\* callback it was given with no error.
PrefixMismatchEscalates ==
    \A q \in Requests : \A w \in 1..Len(reqs[q].walks) :
        LET W == reqs[q].walks[w]
        IN  ~HasPrefix(reqs[q].path, routerPrefix[W.router]) =>
               /\ \A h \in 1..Len(reqs[q].invoked) : reqs[q].invoked[h].walk # w
               /\ W.returned = NoErr

\* the request replayed alone: its root dispatch, then its own continuation
\* calls in the order they were made
RECURSIVE ReplayFrom(_, _, _)
ReplayFrom(rs, log, i) ==
    IF i > Len(log) THEN rs
    ELSE ReplayFrom(ApplyCall(rs, log[i][1], log[i][2]), log, i + 1)
Alone(rs) == ReplayFrom(Enter(rs.root, rs.method, rs.path), rs.log, 1)

\* C10: two requests served concurrently on the same Routers, interleaved
\* at handler and continuation boundaries: the cursors, the allowed
\* methods, the handlers invoked, the Allow reply and the terminal outcome
\* of each are those of the request served alone.
IndependentRequests ==
    \A q \in Requests :
        reqs[q].active =>
            LET a == Alone(reqs[q])
            IN  /\ reqs[q].walks = a.walks
                /\ reqs[q].invoked = a.invoked
                /\ reqs[q].resp = a.resp
                /\ reqs[q].done = a.done

\* both requests are under way on the same stack, one waits in a handler
\* while the other has moved its own cursor further
IndependentRequestsWitness ==
    /\ \A q \in Requests : reqs[q].active
    /\ reqs["q1"].path = reqs["q2"].path
    /\ reqs["q1"].method = "OPTIONS" /\ reqs["q2"].method = "OPTIONS"
    /\ reqs["q1"].log # << >> /\ reqs["q1"].walks[1].allow # << >>
    /\ Pending(reqs["q2"]) /\ reqs["q2"].walks[1].allow = << >>
    /\ reqs["q1"].walks[1].idx > reqs["q2"].walks[1].idx

----------------------------------------------------------------------------
----------------------------------------------------------------------------
LeafRouter == RouterOrder[3]

\* C12: with B mounted under the root A at /v1 (only) and C mounted under B
\* at /api (only), in whichever order the two Use calls were made, the
\* routerPrefix of C is /v1/api, and a GET request for /v1/api/users
\* entering A invokes the handler of a GET Route of C at /users.
NestedPrefixAnyOrder ==
    \A q \in Requests :
        LET rs == reqs[q]
            C  == stack[LeafRouter]
        IN  (/\ MountedOnlyAt(RootRouter, SubRouter, V1)
             /\ MountedOnlyAt(SubRouter, LeafRouter, API)
             /\ \A i \in 1..Len(stack[RootRouter]) :
                    stack[RootRouter][i].handler # LeafRouter) =>
                /\ routerPrefix[LeafRouter] = V1 \o API
                /\ (/\ rs.active
                    /\ rs.path = V1_API_USERS
                    /\ Len(C) > 0
                    /\ IsRouteAt(C[1], USERS)) =>
                       /\ rs.invoked # << >>
                       /\ rs.invoked[1].router = LeafRouter

----------------------------------------------------------------------------
\* the sequence 1, 2, ..., n
Upto(n) == [i \in 1..n |-> i]

NoRepeat(s) == \A i, j \in 1..Len(s) : s[i] = s[j] => i = j

CursorInBounds ==
    \A q \in Requests : \A w \in 1..Len(reqs[q].walks) :
        LET W == reqs[q].walks[w]
        IN  /\ W.idx \in 0..Len(stack[W.router])
            /\ W.seen = Upto(W.idx)
            /\ NoRepeat(W.picked)
            /\ \A i \in 1..Len(W.picked) : W.picked[i] \in 1..W.idx

CursorStep ==
    \A q \in Requests : \A w \in 1..Len(reqs[q].walks) :
        /\ w <= Len(reqs'[q].walks)
        /\ reqs'[q].walks[w].idx >= reqs[q].walks[w].idx
        /\ reqs'[q].walks[w].router = reqs[q].walks[w].router

\* C13: in every walk, whatever continuation calls the handlers make, the
\* cursor is between 0 and the length of the stack, the layers inspected so
\* far are exactly layers 1 to cursor, each once and in order (the cursor
\* starts at 0 and advances by one per layer inspected), no layer is handed
\* the request twice, and no step lowers the cursor of a walk.
CursorMonotone == [](CursorInBounds) /\ [][CursorStep]_vars

\* a handler has called its continuation a second time and the walk has
\* moved on to hand the request to a later layer
CursorMonotoneWitness ==
    \E q \in Requests :
        /\ Recalls(reqs[q]) > 0
        /\ Len(reqs[q].walks[1].picked) = 2
        /\ reqs[q].invoked[1].calls = 2
        /\ reqs[q].walks[1].idx = 2

----------------------------------------------------------------------------
Increasing(s) == \A i, j \in 1..Len(s) : i < j => s[i] < s[j]

InSeq(x, s) == \E i \in 1..Len(s) : s[i] = x

\* C14: in every walk the layers handed the request are, in stack order,
\* exactly the usable layers among those inspected: layers whose pattern
\* matches the trimmed path and that have no Route, or a Route handling the
\* method, or the method is HEAD.  The one usable layer inspected and not
\* handed the request is the layer the scan stopped at when the walk ended
\* on an error.  So each layer handed the request is the first usable layer
\* after the cursor left by the previous one.
UsableMatch ==
    \A q \in Requests : \A w \in 1..Len(reqs[q].walks) :
        LET rs   == reqs[q]
            W    == rs.walks[w]
            S    == stack[W.router]
            path == TrimPrefix(rs.path, routerPrefix[W.router])
        IN  /\ Increasing(W.picked)
            /\ \A i \in 1..Len(W.picked) :
                   Usable(S[W.picked[i]], rs.method, path)
            /\ \A i \in 1..W.idx :
                   (Usable(S[i], rs.method, path) /\ ~InSeq(i, W.picked)) =>
                       i = W.idx /\ W.returned \in Errors

\* a HEAD request handed to a Route that handles POST only, after a pure
\* middleware layer
UsableMatchWitness ==
    \E q \in Requests :
        LET rs == reqs[q]
            S  == stack[RootRouter]
        IN  /\ rs.active
            /\ rs.method = "HEAD"
            /\ rs.walks[1].picked = <<1, 2>>
            /\ ~S[1].hasRoute
            /\ S[2].hasRoute /\ S[2].methods = {"POST"}

----------------------------------------------------------------------------
\* while a handler holds its continuation it is the handler invoked last,
\* and nothing has been replied
HeldRequest ==
    \A q \in Requests :
        LET rs == reqs[q]
        IN  Pending(rs) =>
               /\ rs.invoked[Len(rs.invoked)].calls = 0
               /\ rs.done = << >>
               /\ rs.status = << >>
               /\ rs.resp = << >>

\* a request in service changes only by a handler calling its continuation
OnlyByContinuation ==
    \A q \in Requests :
        (reqs[q].active /\ reqs'[q] # reqs[q]) =>
            /\ Pending(reqs[q])
            /\ Len(reqs'[q].log) = Len(reqs[q].log) + 1

\* C15: while a selected handler has not called its continuation, no
\* handler has been invoked after it, the terminal callback has not been
\* called and no automatic OPTIONS reply has been written; and the only
\* step that changes the request is a handler calling its continuation.
HandlerDeclines == [](HeldRequest) /\ [][OnlyByContinuation]_vars

\* the handler of the first layer holds its continuation while a second
\* usable layer follows it in the stack of the root Router
HandlerDeclinesWitness ==
    \E q \in Requests :
        LET rs == reqs[q]
            S  == stack[RootRouter]
        IN  /\ Pending(rs)
            /\ rs.method = "OPTIONS"
            /\ rs.invoked = <<[walk |-> 1, router |-> RootRouter, layer |-> 1,
                               calls |-> 0, passed |-> NoCall]>>
            /\ Len(S) >= 3
            /\ Usable(S[2], rs.method, rs.path)
            /\ S[3].hasRoute /\ LayerMatch(S[3], rs.path)[1]
            /\ ~handlesMethod(S[3], rs.method)

----------------------------------------------------------------------------
Replied(rs, w) == \E i \in 1..Len(rs.resp) : rs.resp[i].walk = w

\* C16: for an OPTIONS request, a walk that is over has either written the
\* automatic reply or called the callback it was given, never both; it has
\* replied only with a non-empty list of methods and when no handler passed
\* an error; it has called the callback with no error only when it had
\* accumulated no method; an error a handler passed to its continuation is
\* the value the walk passed to its callback; and the callback of the root
\* walk, the terminal callback, was called with that same value.
OptionsFallback ==
    \A q \in Requests :
        LET rs == reqs[q]
        IN  rs.method = "OPTIONS" =>
              /\ \A w \in 1..Len(rs.walks) :
                    LET W == rs.walks[w]
                    IN  W.ended =>
                          /\ Replied(rs, w) <=> W.returned = NoCall
                          /\ Replied(rs, w) =>
                                /\ W.allow # << >>
                                /\ \A h \in 1..Len(rs.invoked) :
                                       rs.invoked[h].passed \notin Errors
                          /\ W.returned = NoErr => W.allow = << >>
                          /\ (W.parent = 0 /\ W.returned # NoCall) =>
                                rs.done = <<W.returned>>
              /\ \A h \in 1..Len(rs.invoked) :
                    rs.invoked[h].passed \in Errors =>
                       /\ rs.walks[rs.invoked[h].walk].ended
                       /\ rs.walks[rs.invoked[h].walk].returned = rs.invoked[h].passed
                       /\ rs.resp = << >>

\* an OPTIONS request whose root walk had accumulated methods when a handler
\* passed e1: the terminal callback was called with e1 and nothing replied
OptionsFallbackWitness ==
    \E q \in Requests :
        LET rs == reqs[q]
        IN  /\ rs.active
            /\ rs.method = "OPTIONS"
            /\ rs.walks[1].allow # << >>
            /\ rs.walks[1].returned = "e1"
            /\ rs.done = <<"e1">>
            /\ rs.resp = << >>

----------------------------------------------------------------------------
IsPrefixOf(s, t) == Len(s) <= Len(t) /\ SubSeq(t, 1, Len(s)) = s

\* the layers added to the stack of r by the step
Added(r) == SubSeq(stack'[r], Len(stack[r]) + 1, Len(stack'[r]))

OthersKept(r) == \A o \in Routers \ {r} : stack'[o] = stack[o]

\* the layer Use is to append for handler h under path
MiddlewareLayer(path, h) ==
    [path |-> IF path = EMPTY THEN ROOT ELSE path, handler |-> h,
     isRoute |-> FALSE, hasRoute |-> FALSE, methods |-> {}]

Methods == {MethodOrder[i] : i \in 1..Len(MethodOrder)}

\* a single layer with a Route of its own at path, handling methods ms
OneRouteLayer(ls, path, ms) ==
    /\ Len(ls) = 1
    /\ ls[1].hasRoute /\ ls[1].isRoute
    /\ ls[1].path = path
    /\ ls[1].methods = ms

\* what the registration calls are to add
RegistrationStep ==
    /\ \A r \in Routers, path \in UsePaths :
          \A hs \in HandlerLists(r, Routers) :
             Use(r, path, hs) =>
                /\ Added(r) = [i \in 1..Len(hs) |-> MiddlewareLayer(path, hs[i])]
                /\ OthersKept(r)
    /\ \A r \in Routers, path \in RoutePaths :
          /\ Route(r, path) =>
                OneRouteLayer(Added(r), path, {}) /\ OthersKept(r)
          /\ \A m \in ShorthandMethods :
                addHandler(r, m, path) =>
                   OneRouteLayer(Added(r), path, {m}) /\ OthersKept(r)
          /\ All(r, path) =>
                (\E ms \in SUBSET Methods : OneRouteLayer(Added(r), path, ms))
                /\ OthersKept(r)

\* no registration call is a step into or within the service of requests
\* (Use, Route, addHandler and All leave serving FALSE)
AppendStep ==
    /\ \A r \in Routers : IsPrefixOf(stack[r], stack'[r])
    /\ ~serving' => RegistrationStep

\* C17: every step keeps the layers already in each stack, unchanged and in
\* order, as a prefix of the new stack; Use(path, h1..hn) adds after them
\* exactly n layers, one per handler in argument order, with the path ("/"
\* for the empty path) and no Route; Route(path), GET, POST, PUT, DELETE,
\* HEAD and All add exactly one layer with a Route of its own at path.
AppendOnlyStack == [][AppendStep]_vars

\* a Route, then the two layers of Use("", fn, B)
AppendOnlyStackWitness ==
    LET S == stack[RootRouter]
    IN  /\ Len(S) = 3
        /\ S[1].hasRoute
        /\ S[2] = MiddlewareLayer(EMPTY, "fn")
        /\ S[3] = MiddlewareLayer(EMPTY, SubRouter)

----------------------------------------------------------------------------
DispatchStep ==
    reqs' # reqs => (stack' = stack /\ routerPrefix' = routerPrefix)

\* C18: a step of a dispatch (a request entering the root Router, a handler
\* calling its continuation for the first time or again, with the walks of
\* the nested Routers it runs) leaves the stack and the routerPrefix of
\* every Router as they were.
DispatchReadOnly == [][DispatchStep]_vars

\* a request that has been through a nested Router and whose handler has
\* called its continuation twice
DispatchReadOnlyWitness ==
    \E q \in Requests :
        /\ Len(reqs[q].walks) >= 2
        /\ Recalls(reqs[q]) > 0
        /\ reqs[q].invoked[1].router = SubRouter
        /\ routerPrefix[SubRouter] = API
        /\ Len(stack[RootRouter]) = 1 /\ Len(stack[SubRouter]) = 1

----------------------------------------------------------------------------
\* C19: a walk of a Router whose routerPrefix is the whole request path has
\* inspected no layer and handed the request to none, its cursor is still
\* 0, no handler of it was invoked, it wrote no reply, and it is over,
\* having called the callback it was given with the value it was started
\* with (no error).
EmptyTrimmedPath ==
    \A q \in Requests : \A w \in 1..Len(reqs[q].walks) :
        LET rs == reqs[q]
            W  == rs.walks[w]
        IN  rs.path = routerPrefix[W.router] =>
               /\ W.idx = 0
               /\ W.seen = << >>
               /\ W.picked = << >>
               /\ W.allow = << >>
               /\ \A h \in 1..Len(rs.invoked) : rs.invoked[h].walk # w
               /\ ~Replied(rs, w)
               /\ W.ended
               /\ W.returned = NoErr

\* a request for /api through the mount of B at /api, B holding a layer
\* whose pattern "/" would match the empty path; the root walk went on
\* after B called back
EmptyTrimmedPathWitness ==
    \E q \in Requests :
        LET rs == reqs[q]
        IN  /\ rs.active
            /\ rs.path = API
            /\ Len(rs.walks) = 2
            /\ rs.walks[2].router = SubRouter
            /\ routerPrefix[SubRouter] = API
            /\ Len(stack[SubRouter]) > 0
            /\ stack[SubRouter][1] = MiddlewareLayer(EMPTY, "fn")
            /\ rs.walks[2].returned = NoErr
            /\ rs.walks[1].picked = <<1, 2>>

----------------------------------------------------------------------------
\* the captures of the layers of the first n handler invocations of rs, in
\* the order of the invocations
RECURSIVE CapturesOf(_, _)
CapturesOf(rs, n) ==
    IF n = 0 THEN << >>
    ELSE LET h == rs.invoked[n]
             l == stack[h.router][h.layer]
         IN  CapturesOf(rs, n - 1)
             \o LayerMatch(l, TrimPrefix(rs.path, routerPrefix[h.router]))[2]

\* C20: at every point of a request the parameters registered on it are the
\* captures of the layers whose handler has been invoked so far, nothing
\* more and nothing less: a layer's captures are there when its handler is
\* invoked, and a layer passed over (no path match, or no method match) or
\* a walk ending in the terminal callback adds none.
ParamsOnlyForSelected ==
    \A q \in Requests :
        reqs[q].params = CapturesOf(reqs[q], Len(reqs[q].invoked))

\* GET /users over POST /:id, GET /:id, GET /:id: the first Route is passed
\* over, the second one is handed the request with id = users, its handler
\* passes e1, and the walk ends at the third one with nothing added
ParamsOnlyForSelectedWitness ==
    \E q \in Requests :
        LET rs == reqs[q]
            S  == stack[RootRouter]
        IN  /\ rs.method = "GET" /\ rs.path = USERS
            /\ Len(S) = 3
            /\ \A i \in 1..3 : S[i].path = ID
            /\ S[1].methods = {"POST"}
            /\ S[2].methods = {"GET"} /\ S[3].methods = {"GET"}
            /\ rs.walks[1].picked = <<2>>
            /\ rs.walks[1].idx = 3
            /\ rs.done = <<"e1">>
            /\ rs.params = << <<<<"i", "d">>, SubSeq(USERS, 2, Len(USERS))>> >>

====
